---- MODULE Spec2Model ----
(***************************************************************************)
(* aiworkflow core engine (src/src/aiworkflow/core/engine.py): the         *)
(* CircuitBreaker state machine and WorkflowEngine.execute, with the       *)
(* state store and the execution logger it drives.                         *)
(*                                                                         *)
(* Specifications:                                                         *)
(*   SpecCB       the CircuitBreaker object alone, driven through its      *)
(*                public API (state, can_execute, record_success,          *)
(*                record_failure, reset) in any order, with a clock;       *)
(*   Spec         WorkflowEngine.execute: Execute calls (asyncio tasks of  *)
(*                one event loop) sharing one breaker, one state store and *)
(*                one logger.  An action is one await-free segment of      *)
(*                execute;                                                 *)
(*   SpecShared   three calls of a one-step workflow sharing the breaker;  *)
(*   SpecOne      one call, with every pair of step and policy             *)
(*                max_retries;                                             *)
(*   SpecValidate one call, with every outcome of _validate_execution;     *)
(*   SpecCancel   one call, with cancel() called at any moment;            *)
(*   SpecEmpty    one call, of a workflow with no step or some;            *)
(*   SpecErrors   one call, with dispatches that are not configured and a  *)
(*                state store whose checkpoint write raises;               *)
(*   SpecVars     one call, with steps that share an output_variable;      *)
(*   SpecCheckpoint  one call, with outputs Python takes as false;         *)
(*   SpecRetry    one call, with the delays of several retry policies;     *)
(*   SpecReturns  one call that is never cancelled, with fairness on the   *)
(*                awaited dispatches and sleeps;                           *)
(*   SpecCond     _evaluate_conditions on resolved condition strings;      *)
(*   SpecDelay    RetryPolicy.get_delay on one policy.                     *)
(***************************************************************************)
EXTENDS Integers, Sequences, FiniteSets, TLC

VARIABLES
    cb,      \* the CircuitBreaker object: thresholds and private fields
    now,     \* datetime.now(), in clock ticks
    hist,    \* history of the breaker's use (not program state)
    eng,     \* the WorkflowEngine's collaborators: which ones are configured
    wf,      \* the Workflow the Execute calls are given
    running, \* WorkflowEngine._running
    store,   \* the StateStore: execution records and step checkpoints
    logs,    \* the ExecutionLogger: the state of each run's log
    ncalls,  \* how many Execute calls the callers make
    ev,      \* the latest _evaluate_conditions call: argument and answer
    rp,      \* a RetryPolicy and its latest get_delay call
    runs     \* the Execute calls: position and locals of each

(***************************************************************************)
(* Bounds of the model.                                                    *)
(***************************************************************************)
\* Largest failure_threshold / half_open_max_calls / recovery_timeout tried.
MaxThreshold == 3
MaxHalfOpenCalls == 2
MaxRecoveryTimeout == 2
\* The clock stops advancing here.
MaxTime == 5
\* failure_count stops growing here (record_failure while Open is unbounded).
MaxFailures == 5
\* Execute calls made on the engine: of any workflow (Spec), and of a
\* workflow with one step to run (SpecShared).
NumCalls == 2
NumSharedCalls == 3
\* The steps of the workflow.
NSteps == 3
\* Largest max_retries a step declares.
MaxStepRetries == 1
\* The breaker the engine is built with, and how far its clock runs.
EngineFailureThreshold == 1
EngineRecoveryTimeout == 1
EngineHalfOpenMaxCalls == 1
EngineMaxTime == 1
\* SpecOne: the largest max_retries a step declares and the largest
\* max_retries the engine's RetryPolicy is built with.
MaxOneCallRetries == 2
MaxPolicyRetries == 2
\* The longest resolved condition string tried, in characters.
MaxCondLen == 5
\* RetryPolicy: delays and jitter are counted in 1/DelayScale (of a second,
\* of the delay); the largest base_delay, exponential_base and max_delay
\* (in seconds) and the largest attempt number tried.
DelayScale == 10
MaxBaseDelay == 3
MaxExpBase == 3
MaxMaxDelay == 6
MaxAttempt == 3

(***************************************************************************)
(* RetryPolicy                                                             *)
(***************************************************************************)
\* RetryPolicy(): base_delay 1.0, max_delay 60.0, exponential_base 2.0,
\* jitter 0.1.
DefaultRetryPolicy ==
    [ base_delay |-> 1, max_delay |-> 60, exponential_base |-> 2,
      jitter |-> DelayScale \div 10 ]

\* The policies tried: base_delay, max_delay (seconds) and exponential_base
\* whole numbers, jitter any multiple of 1/DelayScale from 0.0 to 1.0.
RetryPolicies ==
    [ base_delay : 0..MaxBaseDelay, max_delay : 0..MaxMaxDelay,
      exponential_base : 1..MaxExpBase, jitter : 0..DelayScale ]

RECURSIVE Pow(_, _)
\* b ** k
Pow(b, k) == IF k = 0 THEN 1 ELSE b * Pow(b, k - 1)

ExpDelayFromAttempt(p, attempt) ==
    p.base_delay * DelayScale * Pow(p.exponential_base, attempt)

\* Exponential backoff: base_delay * exponential_base ** (attempt - 1),
\* in 1/DelayScale seconds.
ExpDelay(p, attempt) ==
    p.base_delay * DelayScale * Pow(p.exponential_base, attempt - 1)

\* RetryPolicy(jitter=0.0): the default delays, without jitter.
SteadyRetryPolicy == [DefaultRetryPolicy EXCEPT !.jitter = 0]

\* random.uniform(a, b): any value from a to b.
Uniform(a, b) == a..b

CapNever(delay, max_delay) == delay

\* Cap at max delay: min(delay, self.max_delay).
Cap(delay, max_delay) ==
    IF delay < max_delay * DelayScale THEN delay ELSE max_delay * DelayScale

\* get_delay(attempt): the values it can return, in 1/DelayScale seconds.
GetDelay(p, attempt) ==
    LET delay == ExpDelay(p, attempt)
        jitter_range == (delay * p.jitter) \div DelayScale
    IN  IF p.jitter > 0
        THEN { Cap(delay + u, p.max_delay) :
                 u \in Uniform(-jitter_range, jitter_range) }
        ELSE { Cap(delay, p.max_delay) }

RECURSIVE DelaySeqs(_, _)
\* The values get_delay(1), ..., get_delay(k) can return on policy p, as
\* sequences.
DelaySeqs(p, k) ==
    IF k = 0 THEN { << >> }
    ELSE { Append(ds, d) : ds \in DelaySeqs(p, k - 1), d \in GetDelay(p, k) }

\* No get_delay call is followed.
NoDelay ==
    [ policy |-> DefaultRetryPolicy, attempt |-> 1, called |-> FALSE,
      delay |-> 0 ]

(***************************************************************************)
(* CircuitBreaker                                                          *)
(***************************************************************************)
CLOSED == "closed"
OPEN == "open"
HALF_OPEN == "half_open"

\* _last_failure_time = None
NoTime == -1

\* CircuitBreaker.__init__
NewBreaker(ft, rt, hm) ==
    [ failure_threshold |-> ft,
      recovery_timeout |-> rt,
      half_open_max_calls |-> hm,
      state |-> CLOSED,
      failure_count |-> 0,
      last_failure_time |-> NoTime,
      half_open_calls |-> 0 ]

\* The state property: the breaker after the lazy Open -> HalfOpen move at
\* time t.  The value the property returns is the state field of the result.
CBStateNoReset(b, t) ==
    IF b.state = OPEN
       /\ b.last_failure_time # NoTime
       /\ t - b.last_failure_time >= b.recovery_timeout
    THEN [b EXCEPT !.state = HALF_OPEN]
    ELSE b

CBState(b, t) ==
    IF b.state = OPEN
       /\ b.last_failure_time # NoTime
       /\ t - b.last_failure_time >= b.recovery_timeout
    THEN [b EXCEPT !.state = HALF_OPEN, !.half_open_calls = 0]
    ELSE b

\* can_execute: the answer, computed on the breaker as the state property
\* left it.
CanExecuteAnswer(b) ==
    IF b.state = CLOSED THEN TRUE
    ELSE IF b.state = HALF_OPEN THEN b.half_open_calls < b.half_open_max_calls
    ELSE FALSE

\* can_execute at time t: the breaker it leaves and the answer it gives.
CanExecute(b, t) ==
    [ cb |-> CBState(b, t), ok |-> CanExecuteAnswer(CBState(b, t)) ]

RecordSuccessNoClear(b) ==
    IF b.state = HALF_OPEN
    THEN IF b.half_open_calls + 1 >= b.half_open_max_calls
         THEN [b EXCEPT !.half_open_calls = @ + 1, !.state = CLOSED,
                        !.failure_count = 0]
         ELSE [b EXCEPT !.half_open_calls = @ + 1]
    ELSE b

RecordSuccessNeverCloses(b) ==
    IF b.state = HALF_OPEN
    THEN [b EXCEPT !.half_open_calls = @ + 1]
    ELSE IF b.state = CLOSED
    THEN [b EXCEPT !.failure_count = 0]
    ELSE b

RecordSuccessLateClose(b) ==
    IF b.state = HALF_OPEN
    THEN IF b.half_open_calls + 1 > b.half_open_max_calls
         THEN [b EXCEPT !.half_open_calls = @ + 1, !.state = CLOSED,
                        !.failure_count = 0]
         ELSE [b EXCEPT !.half_open_calls = @ + 1]
    ELSE IF b.state = CLOSED
    THEN [b EXCEPT !.failure_count = 0]
    ELSE b

\* record_success (reads _state, not the state property)
RecordSuccess(b) ==
    IF b.state = HALF_OPEN
    THEN IF b.half_open_calls + 1 >= b.half_open_max_calls
         THEN [b EXCEPT !.half_open_calls = @ + 1, !.state = CLOSED,
                        !.failure_count = 0]
         ELSE [b EXCEPT !.half_open_calls = @ + 1]
    ELSE IF b.state = CLOSED
    THEN [b EXCEPT !.failure_count = 0]
    ELSE b

RecordFailureIgnoredWhenOpen(b, t) ==
    IF b.state = OPEN THEN b
    ELSE LET c == [b EXCEPT !.failure_count = @ + 1,
                            !.last_failure_time = t]
         IN  IF c.state = HALF_OPEN THEN [c EXCEPT !.state = OPEN]
             ELSE IF c.failure_count >= c.failure_threshold
             THEN [c EXCEPT !.state = OPEN]
             ELSE c

RecordFailureOffByOne(b, t) ==
    LET c == [b EXCEPT !.failure_count = @ + 1, !.last_failure_time = t]
    IN  IF c.state = HALF_OPEN THEN [c EXCEPT !.state = OPEN]
        ELSE IF c.failure_count > c.failure_threshold
        THEN [c EXCEPT !.state = OPEN]
        ELSE c

RecordFailureStaleTime(b, t) ==
    LET c == [b EXCEPT !.failure_count = @ + 1,
                       !.last_failure_time =
                           IF b.state = HALF_OPEN THEN @ ELSE t]
    IN  IF c.state = HALF_OPEN THEN [c EXCEPT !.state = OPEN]
        ELSE IF c.failure_count >= c.failure_threshold
        THEN [c EXCEPT !.state = OPEN]
        ELSE c

\* record_failure at time t
RecordFailure(b, t) ==
    LET c == [b EXCEPT !.failure_count = @ + 1, !.last_failure_time = t]
    IN  IF c.state = HALF_OPEN THEN [c EXCEPT !.state = OPEN]
        ELSE IF c.failure_count >= c.failure_threshold
        THEN [c EXCEPT !.state = OPEN]
        ELSE c

ResetKeepsTime(b) ==
    [b EXCEPT !.state = CLOSED, !.failure_count = 0, !.half_open_calls = 0]

\* reset
Reset(b) ==
    [b EXCEPT !.state = CLOSED, !.failure_count = 0,
              !.last_failure_time = NoTime, !.half_open_calls = 0]

(***************************************************************************)
(* History of the breaker's use.  last_op, prev, op_time and ok describe   *)
(* the latest call on the breaker (prev is the breaker before it, ok its   *)
(* answer when it was can_execute); streak counts the record_failure calls *)
(* since the latest record_success or reset; series follows a sequence of  *)
(* gated calls (can_execute, then record_failure when admitted) from       *)
(* construction, and admitted counts the calls it admitted; half_opened    *)
(* says the breaker has been HalfOpen; ho_admitted counts the can_execute  *)
(* calls answered true since the breaker last entered HalfOpen; ref is the  *)
(* breaker got from the constructed one by applying the calls made so far, *)
(* one at a time, in the order they were made.                             *)
(***************************************************************************)
\* The breaker after the call op is made on breaker b at time t.
ApplyOp(b, op, t) ==
    IF op = "state" THEN CBState(b, t)
    ELSE IF op = "can_execute" THEN CanExecute(b, t).cb
    ELSE IF op = "record_success" THEN RecordSuccess(b)
    ELSE IF op = "record_failure" THEN RecordFailure(b, t)
    ELSE Reset(b)

NewHist(b) ==
    [ last_op |-> "init", prev |-> b, op_time |-> 0, ok |-> TRUE,
      streak |-> 0, series |-> "ok", admitted |-> 0,
      half_opened |-> FALSE, ho_admitted |-> 0, ref |-> b ]

HistSeries(h, op, ok) ==
    IF h.series = "broken" THEN "broken"
    ELSE IF op = "state" THEN h.series
    ELSE IF op = "can_execute"
    THEN IF ~ok THEN h.series
         ELSE IF h.series = "ok" THEN "pending" ELSE "broken"
    ELSE IF op = "record_failure" /\ h.series = "pending" THEN "ok"
    ELSE "broken"

HistOp(h, op, before, after, t, ok) ==
    LET ser == HistSeries(h, op, ok)
        entered == before.state # HALF_OPEN /\ after.state = HALF_OPEN
        base == IF entered THEN 0 ELSE h.ho_admitted
    IN  [ last_op |-> op, prev |-> before, op_time |-> t, ok |-> ok,
          streak |-> IF op = "record_failure" THEN h.streak + 1
                     ELSE IF op \in {"record_success", "reset"} THEN 0
                     ELSE h.streak,
          series |-> ser,
          admitted |-> IF ser = "broken" THEN 0
                       ELSE IF op = "can_execute" /\ ok THEN h.admitted + 1
                       ELSE h.admitted,
          half_opened |-> h.half_opened \/ after.state = HALF_OPEN,
          ho_admitted |-> IF after.state # HALF_OPEN THEN 0
                          ELSE IF op = "can_execute" /\ ok
                          THEN IF base > after.half_open_max_calls
                               THEN base ELSE base + 1
                          ELSE base,
          ref |-> ApplyOp(h.ref, op, t) ]

(***************************************************************************)
(* WorkflowEngine: values                                                  *)
(***************************************************************************)
Calls == 1..NumSharedCalls
Steps == 0..(NSteps - 1)

\* resume_from = None
NoRun == 0
\* _generate_run_id: the id call r gets; ids of different calls differ.
FreshRunId(r) == r
\* A run id a caller passes as resume_from that no Execute call was given.
UnknownRun == NumSharedCalls + 1
RunIds == 1..(NumSharedCalls + 1)

\* RetryPolicy.__init__: max_retries = 3
PolicyMaxRetries == 3

\* step_result.output is None
NoneOut == "None"
\* The non-null outputs an agent or tool returns.
Outputs == {"out"}
\* A second output, for the adapters that return more than one value.
OtherOutput == "alt"
\* A non-null output that Python takes as false: 0, "", [], {}, False.
FalsyOutput == "falsy"
\* A name with no binding in context.variables.
Unbound == "unbound"

Policies == {"continue", "stop", "rollback"}

\* The names of variables: name j is the one step j declares as its
\* output_variable when every step has a variable of its own.
VarNames == Steps
OwnVars == [j \in Steps |-> {j}]

\* Agent names: the one in the engine's config (agent.primary) and another
\* one a caller can pass to execute as agent_name; NoAgent is agent_name =
\* None.
ConfigAgent == "primary"
OtherAgent == "other"
Agents == {ConfigAgent, OtherAgent}
NoAgent == "None"

\* The workflows tried: error_handling policy, the steps whose conditions
\* evaluate to false (none, one of them, or all), and the max_retries every
\* step declares.  Every step is an agent task and declares an
\* output_variable of its own.  needs_input: the workflow declares a
\* required input with no default; needs_tool: it lists a required tool;
\* rejects: the agents its is_compatible_with answers false for; outvar[j]:
\* the set holding the name of the output_variable step j declares (empty
\* when it declares none); tool_steps: the steps whose action is a tool
\* call (the others are agent tasks); nsteps: how many steps it has.
Workflows ==
    [ policy : Policies,
      skip : { s \in SUBSET Steps : Cardinality(s) <= 1 \/ s = Steps },
      max_retries : 0..MaxStepRetries,
      needs_input : {TRUE}, needs_tool : {FALSE}, rejects : {{}},
      tool_steps : {{}}, nsteps : {NSteps},
      outvar : {OwnVars} ]

\* The workflow of SpecShared: only step 0 has conditions that hold.
OneStepWorkflow ==
    [ policy |-> "stop", skip |-> Steps \ {0}, max_retries |-> MaxStepRetries,
      needs_input |-> TRUE, needs_tool |-> FALSE, rejects |-> {},
      tool_steps |-> {}, nsteps |-> NSteps,
      outvar |-> OwnVars ]

\* The engine given every collaborator but a tool registry, and the default
\* RetryPolicy.  has_registry: a tool registry was given; tool_for: the
\* agents for which its has_tool answers true for the workflow's required
\* tool, and its get_tool a tool for a step's tool; outputs: the values the
\* agent adapter's execute_step or the tool's execute returns;
\* checkpoint_raises: the state store's save_checkpoint raises;
\* retry_policy: the delays of the RetryPolicy it was given, here
\* RetryPolicy(jitter=0.0).
FullEngine ==
    [ has_breaker |-> TRUE, has_store |-> TRUE, has_logger |-> TRUE,
      has_adapter |-> TRUE, policy_max_retries |-> PolicyMaxRetries,
      retry_policy |-> SteadyRetryPolicy,
      has_registry |-> FALSE, tool_for |-> {},
      checkpoint_raises |-> FALSE, outputs |-> Outputs ]

\* The engines tried: __init__ given every collaborator, or every one
\* but one.
EngineConfigs ==
    { c \in [ has_breaker : BOOLEAN, has_store : BOOLEAN,
              has_logger : BOOLEAN, has_adapter : BOOLEAN,
              policy_max_retries : {PolicyMaxRetries},
              retry_policy : {SteadyRetryPolicy},
              has_registry : {FALSE}, tool_for : {{}},
              checkpoint_raises : {FALSE},
              outputs : {Outputs} ] :
        Cardinality({ f \in {"has_breaker", "has_store", "has_logger",
                             "has_adapter"} : ~c[f] }) <= 1 }

(***************************************************************************)
(* _evaluate_conditions.  A resolved condition is a string, modelled as    *)
(* the sequence of its characters.                                         *)
(***************************************************************************)
Digits == {"1", "2"}
CondChars == Digits \cup {"a", " ", "=", ">"}

\* The smallest element of a non-empty set of integers.
MinOf(S) == CHOOSE p \in S : \A q \in S : p <= q
MaxOf(S) == CHOOSE p \in S : \A q \in S : p >= q

\* The places p where the two characters a, b stand at p, p + 1 of s.
Places(s, a, b) ==
    { p \in 1..(Len(s) - 1) : s[p] = a /\ s[p + 1] = b }

\* "ab" in s
Contains(s, a, b) == Places(s, a, b) # {}

\* s.split("ab", 1), for s that contains "ab": the parts before and after
\* the first occurrence.
SplitLeft(s, a, b) == SubSeq(s, 1, MinOf(Places(s, a, b)) - 1)
SplitRight(s, a, b) == SubSeq(s, MinOf(Places(s, a, b)) + 2, Len(s))

\* s.strip()
Strip(s) ==
    LET N == { p \in 1..Len(s) : s[p] # " " }
    IN  IF N = {} THEN << >> ELSE SubSeq(s, MinOf(N), MaxOf(N))

\* float(s) does not raise ValueError: over CondChars, s is a non-empty
\* run of digits.
IsFloat(s) == Len(s) > 0 /\ \A p \in 1..Len(s) : s[p] \in Digits

RECURSIVE FloatOf(_)
\* float(s) for such an s
FloatOf(s) ==
    IF Len(s) = 0 THEN 0
    ELSE 10 * FloatOf(SubSeq(s, 1, Len(s) - 1))
         + (IF s[Len(s)] = "1" THEN 1 ELSE 2)

\* What context.resolve_template gives when it raises.
ResolveRaises == <<"raise">>

\* The body of the for loop of _evaluate_conditions for the resolved
\* condition c: FALSE when it returns False, TRUE when it goes on.
ConditionPasses(c) ==
    IF c = ResolveRaises THEN FALSE
    ELSE IF Contains(c, "=", "=")
    THEN Strip(SplitLeft(c, "=", "=")) = Strip(SplitRight(c, "=", "="))
    ELSE IF Contains(c, ">", "=")
    THEN IF IsFloat(Strip(SplitLeft(c, ">", "=")))
            /\ IsFloat(Strip(SplitRight(c, ">", "=")))
         THEN ~(FloatOf(Strip(SplitLeft(c, ">", "=")))
                   < FloatOf(Strip(SplitRight(c, ">", "="))))
         ELSE FALSE
    ELSE TRUE

\* _evaluate_conditions on the resolved conditions cs
EvaluateConditions(cs) == \A n \in 1..Len(cs) : ConditionPasses(cs[n])

\* No call of _evaluate_conditions was made yet; conditions is the list the
\* call will be given.
NoEval == [ called |-> FALSE, conditions |-> << >>, result |-> TRUE ]

(***************************************************************************)
(* StateStore and ExecutionLogger                                          *)
(***************************************************************************)
NoCheckpoint == [ status |-> "none", output |-> NoneOut, retry_count |-> 0 ]

NewStore ==
    [ records |-> [id \in RunIds |-> "none"],
      checkpoints |-> [id \in RunIds |-> [j \in Steps |-> NoCheckpoint]] ]

\* The step indices with a completed checkpoint for run id.
CompletedSteps(st, id) ==
    { j \in Steps : st.checkpoints[id][j].status = "completed" }

\* StateStore.get_resume_point: the smallest step index with no completed
\* checkpoint (the step count when every step has one).
ResumePoint(st, id) ==
    IF CompletedSteps(st, id) = Steps THEN NSteps
    ELSE CHOOSE j \in Steps \ CompletedSteps(st, id) :
             \A k \in Steps \ CompletedSteps(st, id) : j <= k

\* StateStore.create_execution, with status = RUNNING
CreateExecution(st, id) == [st EXCEPT !.records[id] = "running"]

\* StateStore.get_execution(run_id) is not None
HasExecution(st, id) == st.records[id] # "none"

\* StateStore.update_execution of a record whose status was set to s
UpdateExecution(st, id, s) == [st EXCEPT !.records[id] = s]

\* StateStore.save_checkpoint: upsert by (run_id, step_index)
SaveCheckpoint(st, id, j, c) == [st EXCEPT !.checkpoints[id][j] = c]

NewLogs == [id \in RunIds |-> "none"]

(***************************************************************************)
(* WorkflowEngine.execute                                                  *)
(*                                                                         *)
(* A world w holds what one await-free segment of execute reads and        *)
(* writes: the call's locals (w.run) and the shared objects.  The          *)
(* operators below are the segments' code; each returns the world it       *)
(* leaves.                                                                 *)
(***************************************************************************)
\* The locals of an Execute call.  pc is "idle" before the call, "dispatch"
\* while it awaits the agent adapter, "sleep" while it awaits asyncio.sleep
\* between attempts, "returned" after it returned its WorkflowResult and
\* "raised" after an exception left it.  denied, created_record, finalized,
\* dispatched, checkpointed, rollback_arg, record_at_start, after_interrupt
\* and done_at_start record what the call did and found (they are not
\* locals of the code): the steps it dispatched, the steps it saved a
\* checkpoint for, the StepResult list it gave the rollback hook, and for
\* each step the attempts it made (tries[j].made) and those that raised
\* (tries[j].failed).  spec_errors holds the validation conditions that are
\* true of the call for the agent its caller chose (agent_name when one is
\* given, the config's agent otherwise).  cancel_seen holds the index of the
\* step the call was at when cancel() was first called during it.  reports
\* lists the outcomes the call reported to the breaker.  inputs is the
\* inputs mapping the call's ExecutionContext was created with, as a set of
\* name and value pairs.  events lists, in the order the call made them,
\* its log events, its dispatch attempts, its checkpoint writes and the
\* sleeps it began, each with the index of its step.  gate is, while the
\* call is in flight, the state the breaker was in when can_execute
\* admitted it.
NewRun ==
    [ pc |-> "idle", resume_from |-> NoRun, run_id |-> NoRun,
      start_step |-> 0, i |-> 0, attempt |-> 0,
      variables |-> [v \in VarNames |-> Unbound],
      step_results |-> << >>, status |-> "none", error |-> "none",
      validation_errors |-> << >>, spec_errors |-> {}, cancel_seen |-> {},
      reports |-> << >>, inputs |-> {}, events |-> << >>,
      exec_log |-> "none", rollbacks |-> 0, rollback_arg |-> << >>,
      denied |-> FALSE, created_record |-> FALSE, finalized |-> FALSE,
      dispatched |-> {}, checkpointed |-> {},
      tries |-> [j \in Steps |-> [made |-> 0, failed |-> 0]],
      record_at_start |-> FALSE, gate |-> "none",
      after_interrupt |-> FALSE, done_at_start |-> {} ]

CBCallLosesUpdate(w, op, b2, ok) ==
    [w EXCEPT !.hist = HistOp(w.hist, op, w.cb, b2, now, ok)]

\* The breaker's call op, leaving breaker b2 with answer ok.
CBCall(w, op, b2, ok) ==
    [w EXCEPT !.cb = b2, !.hist = HistOp(w.hist, op, w.cb, b2, now, ok)]

EffectiveRetriesOfStep == wf.max_retries

\* min(step.error_handling.max_retries, self.retry_policy.max_retries)
EffectiveRetries ==
    IF wf.max_retries < eng.policy_max_retries THEN wf.max_retries
    ELSE eng.policy_max_retries

\* _finalize_execution
FinalizeExecution(w, success) ==
    LET id == w.run.run_id
        s == IF success THEN "completed" ELSE "failed"
        upd == eng.has_store /\ HasExecution(w.store, id)
        fin == eng.has_logger /\ w.run.exec_log # "none"
    IN  [w EXCEPT
           !.store = IF upd THEN UpdateExecution(@, id, s) ELSE @,
           !.run.finalized = @ \/ upd,
           !.logs[id] = IF fin THEN "sealed" ELSE @,
           !.run.exec_log = IF fin THEN "finished" ELSE @]

\* The end of execute, from the finally clause on: the breaker is told the
\* outcome, the execution is finalized, the WorkflowResult is returned.
Finish(w, status, error) ==
    LET w1 == [w EXCEPT !.running = FALSE]
        w2 == IF ~eng.has_breaker THEN w1
              ELSE IF status = "completed"
              THEN [CBCall(w1, "record_success", RecordSuccess(w1.cb), TRUE)
                      EXCEPT !.run.reports = Append(@, "record_success")]
              ELSE [CBCall(w1, "record_failure",
                           RecordFailure(w1.cb, now), TRUE)
                      EXCEPT !.run.reports = Append(@, "record_failure")]
        w3 == FinalizeExecution(w2, status = "completed")
    IN  [w3 EXCEPT !.run.pc = "returned", !.run.status = status,
                   !.run.error = error, !.run.gate = "none"]

SkipBeforeResumeOffByOne(j, start) == j + 1 < start

SkipBeforeResumeNever(j, start) == FALSE

\* if i < start_step: continue
SkipBeforeResume(j, start) == j < start

\* The truth value Python gives an output in `if step_result.output`.
Truthy(out) == out \notin {NoneOut, FalsyOutput}

\* The checkpoint written for a step result.
CheckpointOf(res) ==
    [ status |-> IF res.status = "completed" THEN "completed" ELSE "failed",
      output |-> IF Truthy(res.output) THEN res.output ELSE NoneOut,
      retry_count |-> res.retries ]

\* ExecutionContext.set_variable(name, value), for the name in names: the
\* mapping with name bound to value and every other name as before.
SetVariable(variables, names, value) ==
    [v \in VarNames |-> IF v \in names THEN value ELSE variables[v]]

BindsOutputAlsoNone(j, res) == wf.outvar[j] # {}

\* if step.output_variable and step_result.output is not None
BindsOutput(j, res) == wf.outvar[j] # {} /\ res.output # NoneOut

OnFailureStopContinues(res) ==
    IF res.status # "failed" THEN "continue"
    ELSE IF wf.policy = "rollback" THEN "rollback"
    ELSE "continue"

OnFailureRollbackAsStop(res) ==
    IF res.status # "failed" THEN "continue"
    ELSE IF wf.policy \in {"stop", "rollback"} THEN "stop"
    ELSE "continue"

\* Handle step failure: what the loop does after the result res, by
\* workflow.metadata.error_handling.
OnFailure(res) ==
    IF res.status # "failed" THEN "continue"
    ELSE IF wf.policy = "stop" THEN "stop"
    ELSE IF wf.policy = "rollback" THEN "rollback"
    ELSE "continue"

\* The call makes the event kind for step j.
Event(w, kind, j) ==
    [w EXCEPT !.run.events = Append(@, [kind |-> kind, index |-> j])]

\* An event of the call's ExecutionLog: made when the call has one.
LogEvent(w, kind, j) ==
    IF w.run.exec_log # "none" THEN Event(w, kind, j) ELSE w

StepStartedNotLogged(w, j) == w

\* Log step start: exec_log.step_started(step.name, i)
StepStarted(w, j) == LogEvent(w, "step_started", j)

ConditionsAlwaysHold(j) == TRUE

\* self._evaluate_conditions(step.conditions, context), for step j.
ConditionsHold(j) == j \notin wf.skip

RECURSIVE Loop(_, _), Attempt(_, _, _), AttemptFailed(_, _, _),
          AttemptFailedRetriesOnceMore(_, _, _), AfterStep(_, _, _)

\* The for loop entered at index j, up to the next await or the return.
Loop(w, j) ==
    IF j >= wf.nsteps THEN Finish(w, "completed", "none")
    ELSE IF SkipBeforeResume(j, w.run.start_step) THEN Loop(w, j + 1)
    ELSE IF ~ConditionsHold(j)
    THEN Loop([StepStarted(w, j) EXCEPT
                        !.run.i = j,
                        !.run.step_results =
                            Append(@, [index |-> j, status |-> "skipped",
                                       output |-> NoneOut, retries |-> 0])],
              j + 1)
    ELSE Attempt([StepStarted(w, j) EXCEPT !.run.i = j], j, 0)

RetryDelayAlwaysFirst(w, a) == w.delays[1]

\* delay = self.retry_policy.get_delay(attempt + 1)
RetryDelay(w, a) == w.delays[a + 1]

\* exec_log.step_retrying(step.name, current_step_index, attempt + 1,
\* max_retries, delay), when the call has a log.
Retrying(w, j, k, max, delay) ==
    IF w.run.exec_log # "none"
    THEN [w EXCEPT !.run.events =
             Append(@, [kind |-> "step_retrying", index |-> j,
                        attempt |-> k, max |-> max, delay |-> delay])]
    ELSE w

\* await asyncio.sleep(delay) begins.
Sleeping(w, j, delay) ==
    [w EXCEPT !.run.events =
        Append(@, [kind |-> "sleep", index |-> j, delay |-> delay])]

\* _execute_agent_task / _execute_tool_call raise before their await: no
\* agent adapter; no tool registry, or no tool for the context's agent.
DispatchConfigured(j) ==
    IF j \in wf.tool_steps
    THEN eng.has_registry /\ ConfigAgent \in eng.tool_for
    ELSE eng.has_adapter

\* _execute_step_with_retry, attempt a of step j: the agent adapter or the
\* tool is awaited, or the dispatch raises at once when it is not
\* configured.
Attempt(w, j, a) ==
    IF DispatchConfigured(j)
    THEN [Event(w, "dispatch", j) EXCEPT
                   !.run.pc = "dispatch", !.run.attempt = a,
                   !.run.tries[j].made = @ + 1,
                   !.run.dispatched = @ \cup {j}]
    ELSE AttemptFailed([Event(w, "dispatch", j) EXCEPT
                                 !.run.attempt = a,
                                 !.run.tries[j].made = @ + 1], j, a)

AttemptFailedRetriesOnceMore(w, j, a) ==
    LET w1 == [w EXCEPT !.run.tries[j].failed = @ + 1]
        delay == w.delays[1]
    IN  IF a <= EffectiveRetries
        THEN [Sleeping(Retrying(w1, j, a + 1, EffectiveRetries, delay),
                       j, delay)
                EXCEPT !.run.pc = "sleep"]
        ELSE AfterStep(w1, j, [index |-> j, status |-> "failed",
                               output |-> NoneOut,
                               retries |-> EffectiveRetries])

\* The except clause of attempt a: sleep before the next attempt, or give
\* the failed StepResult once the retries are used up.
AttemptFailed(w, j, a) ==
    LET w1 == [w EXCEPT !.run.tries[j].failed = @ + 1]
        delay == RetryDelay(w, a)
    IN  IF a < EffectiveRetries
        THEN [Sleeping(Retrying(w1, j, a + 1, EffectiveRetries, delay),
                       j, delay)
                EXCEPT !.run.pc = "sleep"]
        ELSE AfterStep(w1, j, [index |-> j, status |-> "failed",
                               output |-> NoneOut,
                               retries |-> EffectiveRetries])

UnexpectedErrorPropagates(w) ==
    [w EXCEPT !.running = FALSE, !.run.pc = "raised",
              !.run.error = "unexpected"]

\* except Exception as e, around the loop: the run is failed with the
\* error and execute goes on to its end.
UnexpectedError(w) == Finish(w, "failed", "unexpected")

\* The loop body after _execute_step_with_retry returned res for step j.
AfterStep(w, j, res) ==
    IF eng.has_store /\ eng.checkpoint_raises
    THEN UnexpectedError([w EXCEPT !.run.step_results = Append(@, res)])
    ELSE
    LET w0 == LogEvent(IF eng.has_store THEN Event(w, "checkpoint", j)
                       ELSE w,
                       IF res.status = "completed" THEN "step_completed"
                       ELSE "step_failed", j)
        w1 == [w0 EXCEPT
                 !.run.step_results = Append(@, res),
                 !.store = IF eng.has_store
                           THEN SaveCheckpoint(@, w.run.run_id, j,
                                               CheckpointOf(res))
                           ELSE @,
                 !.run.checkpointed =
                     IF eng.has_store THEN @ \cup {j} ELSE @,
                 !.run.variables =
                     IF BindsOutput(j, res)
                     THEN SetVariable(@, wf.outvar[j], res.output)
                     ELSE @]
    IN  IF OnFailure(res) = "stop"
        THEN Finish(w1, "failed", "step_failed")
        ELSE IF OnFailure(res) = "rollback"
        THEN Finish([w1 EXCEPT !.run.rollbacks = @ + 1,
                               !.run.rollback_arg = w1.run.step_results],
                    "failed", "rollback")
        ELSE Loop(w1, j + 1)

GateAlwaysAdmits(ok) == FALSE

\* if self.circuit_breaker and not self.circuit_breaker.can_execute()
GateRefuses(ok) == eng.has_breaker /\ ~ok

\* The return of a call the breaker refused.
Denied(w, r) ==
    [w EXCEPT !.run.pc = "returned", !.run.status = "failed",
              !.run.error = "circuit_open", !.run.denied = TRUE,
              !.run.run_id = IF w.run.resume_from # NoRun
                             THEN w.run.resume_from ELSE FreshRunId(r)]

\* Determine run ID and start point.
StartPoint(w, r) ==
    IF w.run.resume_from # NoRun /\ eng.has_store
    THEN [ run_id |-> w.run.resume_from,
           start_step |-> ResumePoint(w.store, w.run.resume_from) ]
    ELSE [ run_id |-> FreshRunId(r), start_step |-> 0 ]

\* _create_context: context.agent_name is the config's agent; execute's
\* agent_name argument is not consulted.
ContextAgent(agent_name) == ConfigAgent

\* _validate_execution for the context's agent: the errors, in the order
\* the code appends them.  given: the inputs hold the required input.
ValidateExecution(agent, given) ==
    (IF eng.has_registry /\ wf.needs_tool /\ agent \notin eng.tool_for
     THEN <<"tool">> ELSE << >>)
    \o (IF wf.needs_input /\ ~given THEN <<"input">> ELSE << >>)
    \o (IF agent \in wf.rejects THEN <<"agent">> ELSE << >>)

\* The inputs mapping a caller gives: the workflow's one declared input
\* bound to a value (given), or nothing.
RequiredInput == "input"
ContextInputs(given) ==
    IF given THEN { <<RequiredInput, "value">> } ELSE {}

\* execute past the breaker's gate, up to the first await or the return;
\* errs is the list _validate_execution returned.
Admitted(w, r, errs) ==
    LET sp == StartPoint(w, r)
        id == sp.run_id
        create == eng.has_store /\ w.run.resume_from = NoRun
        w1 == [w EXCEPT
                 !.run.run_id = id,
                 !.run.start_step = sp.start_step,
                 !.run.exec_log = IF eng.has_logger THEN "open" ELSE @,
                 !.logs[id] = IF eng.has_logger THEN "open" ELSE @,
                 !.store = IF create THEN CreateExecution(@, id) ELSE @,
                 !.run.created_record = create]
    IN  IF errs # << >>
        THEN [FinalizeExecution(w1, FALSE) EXCEPT
                 !.run.pc = "returned", !.run.status = "failed",
                 !.run.error = "validation",
                 !.run.validation_errors = errs]
        ELSE Loop([w1 EXCEPT !.running = TRUE,
                             !.run.gate = IF eng.has_breaker
                                          THEN w.cb.state ELSE "none"], 0)

\* execute(workflow, inputs, agent_name, resume_from) up to its first await
\* or its return.
ExecuteCall(w, r, rf, agent_name, given) ==
    LET g == IF eng.has_breaker THEN CanExecute(w.cb, now)
             ELSE [cb |-> w.cb, ok |-> TRUE]
        chosen == IF agent_name # NoAgent THEN agent_name ELSE ConfigAgent
        w0 == [w EXCEPT
                 !.run.resume_from = rf,
                 !.run.spec_errors =
                     { e \in {"tool"} :
                         /\ eng.has_registry /\ wf.needs_tool
                         /\ chosen \notin eng.tool_for }
                     \cup { e \in {"input"} : wf.needs_input /\ ~given }
                     \cup { e \in {"agent"} : chosen \in wf.rejects },
                 !.run.record_at_start =
                     rf # NoRun /\ eng.has_store /\ HasExecution(w.store, rf),
                 !.run.after_interrupt =
                     rf # NoRun /\ \E q \in Calls :
                         runs[q].pc = "raised" /\ runs[q].run_id = rf,
                 !.run.done_at_start =
                     IF rf # NoRun THEN CompletedSteps(w.store, rf) ELSE {}]
        w1 == IF eng.has_breaker
              THEN CBCall(w0, "can_execute", g.cb, g.ok) ELSE w0
    IN  IF GateRefuses(g.ok) THEN Denied(w1, r)
        ELSE Admitted([w1 EXCEPT !.run.inputs = ContextInputs(given)], r,
                      ValidateExecution(ContextAgent(agent_name), given))

(***************************************************************************)
(* Spec: Execute calls on one engine.                                      *)
(***************************************************************************)
World(r) ==
    [ run |-> runs[r], store |-> store, logs |-> logs, cb |-> cb,
      hist |-> hist, running |-> running, delays |-> << >> ]

\* The world in which get_delay(k) returns ds[k]: what this segment's
\* random.uniform calls give.
Drawing(w, ds) == [w EXCEPT !.delays = ds]

\* The delays the engine's RetryPolicy can give for the retries of a step.
DelayDraws == DelaySeqs(eng.retry_policy, EffectiveRetries)

\* The state after call r ran a segment of execute that left world w: its
\* locals, and the engine's store, logs and breaker.
Commit(r, w) ==
    \E x \in {w} :
       /\ runs' = [runs EXCEPT ![r] = x.run]
       /\ store' = x.store
       /\ logs' = x.logs
       /\ cb' = x.cb
       /\ hist' = x.hist
       /\ running' = x.running
       /\ UNCHANGED <<now, eng, wf, ncalls, ev, rp>>

\* The run ids a caller can pass as resume_from: the id of a call made
\* before, or one no call was given.
KnownRunIds == { runs[q].run_id : q \in {c \in Calls : runs[c].pc # "idle"} }

EngineInit ==
    /\ cb = NewBreaker(EngineFailureThreshold, EngineRecoveryTimeout,
                       EngineHalfOpenMaxCalls)
    /\ hist = NewHist(NewBreaker(EngineFailureThreshold,
                                 EngineRecoveryTimeout,
                                 EngineHalfOpenMaxCalls))
    /\ now = 0
    /\ running = FALSE
    /\ store = NewStore
    /\ logs = NewLogs
    /\ runs = [r \in Calls |-> NewRun]
    /\ ev = NoEval
    /\ rp = NoDelay

Init ==
    /\ eng \in EngineConfigs
    /\ wf \in Workflows
    /\ ncalls = NumCalls
    /\ EngineInit

\* time passes
Tick ==
    /\ now < EngineMaxTime
    /\ now' = now + 1
    /\ UNCHANGED <<cb, hist, eng, wf, ncalls, ev, rp, running, store, logs, runs>>

\* A caller calls execute; the calls are numbered in the order they are made.
Execute(r) ==
    /\ runs[r].pc = "idle"
    /\ r <= ncalls
    /\ IF r = 1 THEN TRUE ELSE runs[r - 1].pc # "idle"
    /\ \E rf \in {NoRun, UnknownRun} \cup KnownRunIds,
          agent_name \in {NoAgent, OtherAgent}, given \in BOOLEAN :
          \E ds \in DelayDraws :
             Commit(r, ExecuteCall(Drawing(World(r), ds), r, rf, agent_name,
                                   given))

\* The agent adapter's execute_step, or the tool's execute, returns an
\* output.
DispatchReturns(r) ==
    /\ runs[r].pc = "dispatch"
    /\ \E out \in eng.outputs, ds \in DelayDraws :
          Commit(r, AfterStep(Drawing(World(r), ds), runs[r].i,
                              [index |-> runs[r].i, status |-> "completed",
                               output |-> out, retries |-> runs[r].attempt]))

\* The agent adapter's execute_step, or the tool's execute, raises an
\* Exception.
DispatchRaises(r) ==
    /\ runs[r].pc = "dispatch"
    /\ \E ds \in DelayDraws :
          Commit(r, AttemptFailed(Drawing(World(r), ds), runs[r].i,
                                  runs[r].attempt))

\* asyncio.sleep(delay) returns: the next attempt starts.
SleepEnds(r) ==
    /\ runs[r].pc = "sleep"
    /\ \E ds \in DelayDraws :
          Commit(r, Attempt(Drawing(World(r), ds), runs[r].i,
                            runs[r].attempt + 1))

\* The call's task is cancelled while it awaits: asyncio.CancelledError, a
\* BaseException, passes both except Exception clauses; the finally clause
\* runs and the exception leaves execute, whose locals are dropped (and
\* with them the count of the attempts it made).
Cancelled(r) ==
    /\ runs[r].pc \in {"dispatch", "sleep"}
    /\ runs' = [runs EXCEPT ![r] =
                   [@ EXCEPT !.pc = "raised", !.error = "cancelled",
                             !.i = 0, !.attempt = 0,
                             !.variables = NewRun.variables,
                             !.step_results = << >>, !.rollbacks = 0,
                             !.tries = NewRun.tries, !.events = << >>,
                             !.gate = "none"]]
    /\ running' = FALSE
    /\ UNCHANGED <<cb, hist, now, eng, wf, ncalls, ev, rp, store, logs>>

vars == <<cb, now, hist, eng, wf, ncalls, ev, rp, running, store, logs, runs>>

Next ==
    \/ Tick
    \/ \E r \in Calls : Execute(r)
    \/ \E r \in Calls : DispatchReturns(r)
    \/ \E r \in Calls : DispatchRaises(r)
    \/ \E r \in Calls : SleepEnds(r)
    \/ \E r \in Calls : Cancelled(r)

Spec == Init /\ [][Next]_vars

\* SpecShared: Execute calls of a one-step workflow on a fully configured
\* engine, sharing its breaker.
InitShared ==
    /\ eng = FullEngine
    /\ wf = OneStepWorkflow
    /\ ncalls = NumSharedCalls
    /\ EngineInit

SpecShared == InitShared /\ [][Next]_vars

\* SpecOne: one Execute call, on an engine whose RetryPolicy is built with
\* any max_retries up to MaxPolicyRetries, of a workflow whose steps declare
\* any max_retries up to MaxOneCallRetries.
OneCallEngines ==
    { [ has_breaker |-> TRUE, has_store |-> TRUE, has_logger |-> TRUE,
        has_adapter |-> a, policy_max_retries |-> m,
        retry_policy |-> SteadyRetryPolicy,
        has_registry |-> FALSE, tool_for |-> {},
        checkpoint_raises |-> FALSE, outputs |-> Outputs ] :
        a \in BOOLEAN, m \in 0..MaxPolicyRetries }

OneCallWorkflows ==
    [ policy : Policies,
      skip : { {}, {1} },
      max_retries : 0..MaxOneCallRetries,
      needs_input : {TRUE}, needs_tool : {FALSE}, rejects : {{}},
      tool_steps : {{}}, nsteps : {NSteps},
      outvar : {OwnVars} ]

InitOne ==
    /\ eng \in OneCallEngines
    /\ wf \in OneCallWorkflows
    /\ ncalls = 1
    /\ EngineInit

SpecOne == InitOne /\ [][Next]_vars

\* SpecReturns: one Execute call that is never cancelled, on an engine
\* whose RetryPolicy allows MaxPolicyRetries retries, of a workflow whose
\* steps declare one retry or more; every dispatch that is awaited
\* eventually returns or raises, and every asyncio.sleep eventually ends.
ReturnEngines ==
    { e \in OneCallEngines :
        e.has_adapter /\ e.policy_max_retries = MaxPolicyRetries }

ReturnWorkflows == { f \in OneCallWorkflows : f.max_retries >= 1 }

InitReturns ==
    /\ eng \in ReturnEngines
    /\ wf \in ReturnWorkflows
    /\ ncalls = 1
    /\ EngineInit

NextReturns ==
    \/ Tick
    \/ \E r \in Calls : Execute(r)
    \/ \E r \in Calls : DispatchReturns(r)
    \/ \E r \in Calls : DispatchRaises(r)
    \/ \E r \in Calls : SleepEnds(r)

FairReturns ==
    \A r \in Calls :
        /\ WF_vars(DispatchReturns(r) \/ DispatchRaises(r))
        /\ WF_vars(SleepEnds(r))

SpecReturns == InitReturns /\ [][NextReturns]_vars /\ FairReturns

\* SpecErrors: one Execute call on an engine with or without an agent
\* adapter and a tool registry, with or without a tool for the agent, whose
\* state store does or does not raise on save_checkpoint, of a workflow
\* with agent and tool steps.
ErrorEngines ==
    { [FullEngine EXCEPT !.has_adapter = a, !.has_registry = g,
                         !.tool_for = t, !.checkpoint_raises = c] :
        a \in BOOLEAN, g \in BOOLEAN, t \in {{}, {ConfigAgent}},
        c \in BOOLEAN }

ErrorWorkflows ==
    [ policy : Policies,
      skip : { {} },
      max_retries : 0..MaxStepRetries,
      needs_input : {TRUE}, needs_tool : {FALSE}, rejects : {{}},
      tool_steps : { {}, {0}, {1}, Steps }, nsteps : {NSteps},
      outvar : {OwnVars} ]

InitErrors ==
    /\ eng \in ErrorEngines
    /\ wf \in ErrorWorkflows
    /\ ncalls = 1
    /\ EngineInit

SpecErrors == InitErrors /\ [][Next]_vars

\* SpecEmpty: one Execute call on a fully configured engine, of a workflow
\* with no step or some, with or without a required input.
EmptyWorkflows ==
    [ policy : Policies,
      skip : { {} },
      max_retries : {1},
      needs_input : BOOLEAN, needs_tool : {FALSE}, rejects : {{}},
      tool_steps : {{}}, nsteps : 0..NSteps,
      outvar : {OwnVars} ]

InitEmpty ==
    /\ eng = FullEngine
    /\ wf \in EmptyWorkflows
    /\ ncalls = 1
    /\ EngineInit

SpecEmpty == InitEmpty /\ [][Next]_vars

\* SpecRetry: one Execute call on an engine with or without a logger and an
\* agent adapter, whose RetryPolicy has no jitter, the default jitter, or a
\* max_delay that cuts the second delay, of a two-step workflow whose steps
\* declare any max_retries up to MaxOneCallRetries.
RetryEngines ==
    { [FullEngine EXCEPT !.has_logger = l, !.has_adapter = a,
                         !.retry_policy = p] :
        l \in BOOLEAN, a \in BOOLEAN,
        p \in { SteadyRetryPolicy, DefaultRetryPolicy,
                [SteadyRetryPolicy EXCEPT !.max_delay = 1] } }

RetryWorkflows ==
    [ policy : Policies,
      skip : { {} },
      max_retries : 0..MaxOneCallRetries,
      needs_input : {TRUE}, needs_tool : {FALSE}, rejects : {{}},
      tool_steps : {{}}, nsteps : {2},
      outvar : {OwnVars} ]

InitRetry ==
    /\ eng \in RetryEngines
    /\ wf \in RetryWorkflows
    /\ ncalls = 1
    /\ EngineInit

SpecRetry == InitRetry /\ [][Next]_vars

\* SpecCheckpoint: one Execute call on a fully configured engine whose
\* adapter returns a value, a value Python takes as false, or None, of a
\* two-step workflow.
CheckpointWorkflows ==
    [ policy : Policies,
      skip : { {}, {0} },
      max_retries : {1},
      needs_input : {TRUE}, needs_tool : {FALSE}, rejects : {{}},
      tool_steps : {{}}, nsteps : {2},
      outvar : {OwnVars} ]

InitCheckpoint ==
    /\ eng = [FullEngine EXCEPT
                 !.outputs = Outputs \cup {FalsyOutput, NoneOut}]
    /\ wf \in CheckpointWorkflows
    /\ ncalls = 1
    /\ EngineInit

SpecCheckpoint == InitCheckpoint /\ [][Next]_vars

\* cancel(): clears _running.  Nothing else is written; the calls in flight
\* are at an await of step i.
Cancel ==
    /\ running' = FALSE
    /\ runs' = [r \in Calls |->
                  IF runs[r].pc \in {"dispatch", "sleep"}
                     /\ runs[r].cancel_seen = {}
                  THEN [runs[r] EXCEPT !.cancel_seen = {runs[r].i}]
                  ELSE runs[r]]
    /\ UNCHANGED <<cb, hist, now, eng, wf, ncalls, ev, rp, store, logs>>

\* SpecCancel: one Execute call on a fully configured engine, with cancel()
\* called at any moment.
CancelWorkflows ==
    [ policy : Policies,
      skip : { {}, {1} },
      max_retries : {1},
      needs_input : {TRUE}, needs_tool : {FALSE}, rejects : {{}},
      tool_steps : {{}}, nsteps : {NSteps},
      outvar : {OwnVars} ]

InitCancel ==
    /\ eng = FullEngine
    /\ wf \in CancelWorkflows
    /\ ncalls = 1
    /\ EngineInit

NextCancel ==
    \/ Next
    \/ Cancel

SpecCancel == InitCancel /\ [][NextCancel]_vars

\* SpecVars: one Execute call on a fully configured engine whose adapter
\* returns either of two values or None, of a workflow whose steps declare
\* a variable each, or all the same variable, or (step 1) none.
VarsWorkflows ==
    [ policy : {"continue", "stop"},
      skip : { {} },
      max_retries : {1},
      needs_input : {TRUE}, needs_tool : {FALSE}, rejects : {{}},
      tool_steps : {{}}, nsteps : {NSteps},
      outvar : { OwnVars, [j \in Steps |-> {0}],
                 [j \in Steps |-> IF j = 1 THEN {} ELSE {0}] } ]

InitVars ==
    /\ eng = [FullEngine EXCEPT
                 !.outputs = Outputs \cup {OtherOutput, NoneOut}]
    /\ wf \in VarsWorkflows
    /\ ncalls = 1
    /\ EngineInit

SpecVars == InitVars /\ [][Next]_vars

\* SpecValidate: one Execute call on an engine with or without a tool
\* registry, of a workflow with any combination of required input, required
\* tool and agents its compatibility predicate rejects.
ValidateEngines ==
    { [FullEngine EXCEPT !.has_registry = g, !.tool_for = t] :
        g \in BOOLEAN, t \in SUBSET Agents }

ValidateWorkflows ==
    [ policy : {"stop"},
      skip : { {} },
      max_retries : {1},
      needs_input : BOOLEAN, needs_tool : BOOLEAN, rejects : SUBSET Agents,
      tool_steps : {{}}, nsteps : {NSteps},
      outvar : {OwnVars} ]

InitValidate ==
    /\ eng \in ValidateEngines
    /\ wf \in ValidateWorkflows
    /\ ncalls = 1
    /\ EngineInit

SpecValidate == InitValidate /\ [][Next]_vars

\* SpecCond: _evaluate_conditions called with every list of one resolved
\* condition of up to MaxCondLen characters, alone or followed by a second
\* condition, and with the empty list.
CondStrings ==
    UNION { [1..n -> CondChars] : n \in 0..MaxCondLen } \cup {ResolveRaises}

SecondConds ==
    { <<"1", "=", "=", "1">>, <<"1", "=", "=", "2">>, <<"a">> }

ConditionLists ==
    { << >> } \cup { <<c>> : c \in CondStrings }
    \cup { <<c, d>> : c \in CondStrings, d \in SecondConds }

InitCond ==
    /\ \E cs \in ConditionLists : ev = [NoEval EXCEPT !.conditions = cs]
    /\ rp = NoDelay
    /\ eng = FullEngine
    /\ wf = OneStepWorkflow
    /\ ncalls = 0
    /\ cb = NewBreaker(EngineFailureThreshold, EngineRecoveryTimeout,
                       EngineHalfOpenMaxCalls)
    /\ hist = NewHist(cb)
    /\ now = 0
    /\ running = FALSE
    /\ store = NewStore
    /\ logs = NewLogs
    /\ runs = [r \in Calls |-> NewRun]

\* self._evaluate_conditions(step.conditions, context)
EvalConditions ==
    /\ ~ev.called
    /\ ev' = [ev EXCEPT !.called = TRUE,
                        !.result = EvaluateConditions(ev.conditions)]
    /\ UNCHANGED rp
    /\ UNCHANGED <<cb, hist, now, eng, wf, ncalls, running, store, logs, runs>>

NextCond == EvalConditions

SpecCond == InitCond /\ [][NextCond]_vars

(***************************************************************************)
(* SpecDelay: get_delay(attempt) called again and again on one policy.     *)
(***************************************************************************)
InitDelay ==
    /\ \E p \in RetryPolicies, n \in 1..MaxAttempt :
          rp = [NoDelay EXCEPT !.policy = p, !.attempt = n]
    /\ eng = FullEngine
    /\ wf = OneStepWorkflow
    /\ ncalls = 0
    /\ cb = NewBreaker(EngineFailureThreshold, EngineRecoveryTimeout,
                       EngineHalfOpenMaxCalls)
    /\ hist = NewHist(cb)
    /\ now = 0
    /\ running = FALSE
    /\ store = NewStore
    /\ logs = NewLogs
    /\ runs = [r \in Calls |-> NewRun]
    /\ ev = NoEval

CallGetDelay ==
    /\ \E d \in GetDelay(rp.policy, rp.attempt) :
          rp' = [rp EXCEPT !.called = TRUE, !.delay = d]
    /\ UNCHANGED <<cb, now, hist, eng, wf, ncalls, ev, running, store, logs,
                   runs>>

NextDelay == CallGetDelay

SpecDelay == InitDelay /\ [][NextDelay]_vars

(***************************************************************************)
(* SpecCB: the breaker driven through its public API.                      *)
(***************************************************************************)
EngineIdle == UNCHANGED <<eng, wf, ncalls, ev, rp, running, store, logs, runs>>

InitCB ==
    /\ \E ft \in 1..MaxThreshold, rt \in 1..MaxRecoveryTimeout,
          hm \in 1..MaxHalfOpenCalls :
          /\ cb = NewBreaker(ft, rt, hm)
          /\ hist = NewHist(NewBreaker(ft, rt, hm))
    /\ now = 0
    /\ eng = [ has_breaker |-> TRUE, has_store |-> FALSE,
               has_logger |-> FALSE, has_adapter |-> FALSE,
               policy_max_retries |-> PolicyMaxRetries,
               retry_policy |-> SteadyRetryPolicy,
               has_registry |-> FALSE, tool_for |-> {},
               checkpoint_raises |-> FALSE, outputs |-> Outputs ]
    /\ wf = OneStepWorkflow
    /\ ncalls = 0
    /\ ev = NoEval
    /\ rp = NoDelay
    /\ running = FALSE
    /\ store = NewStore
    /\ logs = NewLogs
    /\ runs = [r \in Calls |-> NewRun]

\* time passes
CBTick ==
    /\ now < MaxTime
    /\ now' = now + 1
    /\ UNCHANGED <<cb, hist>>
    /\ EngineIdle

\* a read of cb.state
CBQueryState ==
    /\ cb' = CBState(cb, now)
    /\ hist' = HistOp(hist, "state", cb, cb', now, TRUE)
    /\ UNCHANGED now
    /\ EngineIdle

\* cb.can_execute()
CBCanExecute ==
    /\ cb' = CanExecute(cb, now).cb
    /\ hist' = HistOp(hist, "can_execute", cb, cb', now, CanExecute(cb, now).ok)
    /\ UNCHANGED now
    /\ EngineIdle

\* cb.record_success()
CBRecordSuccess ==
    /\ cb' = RecordSuccess(cb)
    /\ hist' = HistOp(hist, "record_success", cb, cb', now, TRUE)
    /\ UNCHANGED now
    /\ EngineIdle

\* cb.record_failure()
CBRecordFailure ==
    /\ cb.failure_count < MaxFailures
    /\ cb' = RecordFailure(cb, now)
    /\ hist' = HistOp(hist, "record_failure", cb, cb', now, TRUE)
    /\ UNCHANGED now
    /\ EngineIdle

\* cb.reset()
CBReset ==
    /\ cb' = Reset(cb)
    /\ hist' = HistOp(hist, "reset", cb, cb', now, TRUE)
    /\ UNCHANGED now
    /\ EngineIdle

NextCB ==
    \/ CBTick
    \/ CBQueryState
    \/ CBCanExecute
    \/ CBRecordSuccess
    \/ CBRecordFailure
    \/ CBReset

SpecCB == InitCB /\ [][NextCB]_vars

(***************************************************************************)
(* Claims about the circuit breaker, checked under SpecCB.                 *)
(***************************************************************************)

\* C6: while the breaker is Closed, failure_count is at most
\* failure_threshold; and the record_failure call that brings the count to
\* failure_threshold returns with the breaker Open, so that can_execute at
\* that moment answers false.
C6_ClosedCountBounded ==
    /\ cb.state = CLOSED => cb.failure_count <= cb.failure_threshold
    /\ ( /\ hist.last_op = "record_failure"
         /\ hist.prev.failure_count + 1 = cb.failure_threshold )
       => /\ cb.state = OPEN
          /\ ~CanExecute(cb, hist.op_time).ok

\* C6 witness: a record_failure made in Closed has just brought the count
\* of a breaker with threshold above 1 up to the threshold.
C6_Witness ==
    /\ hist.last_op = "record_failure"
    /\ hist.prev.state = CLOSED
    /\ cb.failure_threshold > 1
    /\ cb.failure_count = cb.failure_threshold
    /\ cb.state = OPEN

\* C7: a record_success in Closed leaves the counter at 0 and the breaker
\* Closed; while Closed the counter equals the number of record_failure
\* calls since the latest record_success; the breaker leaves Closed only in
\* a record_failure that completes failure_threshold consecutive failures;
\* a shorter run of failures leaves it Closed with can_execute true.
C7_SuccessResetsCount ==
    /\ (hist.last_op = "record_success" /\ hist.prev.state = CLOSED)
       => (cb.failure_count = 0 /\ cb.state = CLOSED)
    /\ cb.state = CLOSED => cb.failure_count = hist.streak
    /\ (hist.prev.state = CLOSED /\ cb.state # CLOSED)
       => (hist.last_op = "record_failure"
           /\ hist.streak = cb.failure_threshold)
    /\ ( /\ hist.last_op = "record_failure"
         /\ hist.prev.state = CLOSED
         /\ hist.streak < cb.failure_threshold )
       => (cb.state = CLOSED /\ CanExecute(cb, now).ok)

\* C7 witness: a record_success has just cleared a counter that stood one
\* below the threshold.
C7_Witness ==
    /\ hist.last_op = "record_success"
    /\ hist.prev.state = CLOSED
    /\ hist.prev.failure_count >= 1
    /\ hist.prev.failure_count = cb.failure_threshold - 1
    /\ cb.failure_count = 0

\* C8: a state query or can_execute made on an Open breaker less than
\* recovery_timeout after the last failure leaves it Open, and can_execute
\* answers false; made once recovery_timeout has elapsed it leaves the
\* breaker HalfOpen with the half-open counter 0, and can_execute answers
\* true.  A series of gated calls that all fail, made on a new breaker
\* before any recovery, admits at most failure_threshold calls, and exactly
\* failure_threshold once the breaker is Open.
C8_OpenUntilTimeout ==
    /\ ( /\ hist.last_op \in {"state", "can_execute"}
         /\ hist.prev.state = OPEN
         /\ hist.op_time - hist.prev.last_failure_time
                < cb.recovery_timeout )
       => /\ cb = hist.prev
          /\ hist.last_op = "can_execute" => ~hist.ok
    /\ ( /\ hist.last_op \in {"state", "can_execute"}
         /\ hist.prev.state = OPEN
         /\ hist.op_time - hist.prev.last_failure_time
                >= cb.recovery_timeout )
       => /\ cb.state = HALF_OPEN
          /\ cb.half_open_calls = 0
          /\ hist.last_op = "can_execute" => hist.ok
    /\ (hist.series # "broken" /\ ~hist.half_opened)
       => hist.admitted <= cb.failure_threshold
    /\ (hist.series = "ok" /\ ~hist.half_opened /\ cb.state = OPEN)
       => hist.admitted = cb.failure_threshold

\* C8 witness: can_execute has just moved an Open breaker, whose half-open
\* counter was not 0, to HalfOpen and answered true.
C8_Witness ==
    /\ hist.last_op = "can_execute"
    /\ hist.prev.state = OPEN
    /\ hist.prev.half_open_calls > 0
    /\ cb.state = HALF_OPEN
    /\ hist.ok

\* C10: a record_failure made in HalfOpen returns with the breaker Open and
\* the failure timestamp at the time of that call; until recovery_timeout
\* has elapsed from that time the breaker stays Open and refuses.
C10_HalfOpenFailureReopens ==
    (hist.last_op = "record_failure" /\ hist.prev.state = HALF_OPEN)
    => /\ cb.state = OPEN
       /\ cb.last_failure_time = hist.op_time
       /\ now - hist.op_time < cb.recovery_timeout
          => /\ CBState(cb, now).state = OPEN
             /\ ~CanExecute(cb, now).ok

\* C10 witness: a record_failure was made in HalfOpen, later than the
\* failure that had opened the breaker, and time has passed since.
C10_Witness ==
    /\ hist.last_op = "record_failure"
    /\ hist.prev.state = HALF_OPEN
    /\ hist.prev.last_failure_time < hist.op_time
    /\ hist.op_time < now
    /\ now - hist.op_time < cb.recovery_timeout
    /\ cb.state = OPEN

\* C11: a record_success made in HalfOpen adds one to the half-open counter;
\* while the counter is below half_open_max_calls the breaker stays HalfOpen
\* with its failure count as it was, and the call that brings the counter
\* to half_open_max_calls leaves the breaker Closed with failure_count 0.
\* A HalfOpen breaker's counter is always below half_open_max_calls.
C11_HalfOpenSuccessCounts ==
    /\ cb.state = HALF_OPEN => cb.half_open_calls < cb.half_open_max_calls
    /\ (hist.last_op = "record_success" /\ hist.prev.state = HALF_OPEN)
       => /\ cb.half_open_calls = hist.prev.half_open_calls + 1
          /\ IF cb.half_open_calls < cb.half_open_max_calls
             THEN /\ cb.state = HALF_OPEN
                  /\ cb.failure_count = hist.prev.failure_count
             ELSE /\ cb.half_open_calls = cb.half_open_max_calls
                  /\ cb.state = CLOSED
                  /\ cb.failure_count = 0

\* C11 witness: the second record_success in HalfOpen of a breaker with
\* half_open_max_calls 2 has just closed it and cleared a failure count
\* that was not 0.
C11_Witness ==
    /\ hist.last_op = "record_success"
    /\ hist.prev.state = HALF_OPEN
    /\ hist.prev.half_open_calls = 1
    /\ hist.prev.failure_count > 0
    /\ cb.half_open_max_calls = 2
    /\ cb.state = CLOSED

\* C12: reset leaves the breaker equal to a newly constructed one with the
\* same thresholds (Closed, failure_count 0, half-open counter 0, no
\* failure timestamp), and can_execute then answers true.
C12_ResetGivesNewBreaker ==
    hist.last_op = "reset"
    => /\ cb = NewBreaker(hist.prev.failure_threshold,
                          hist.prev.recovery_timeout,
                          hist.prev.half_open_max_calls)
       /\ CanExecute(cb, now).ok
       /\ CanExecute(cb, now).cb = cb

\* C12 witness: reset was called on a HalfOpen breaker that had counted a
\* success and held failures and a failure timestamp; time has passed since.
C12_Witness ==
    /\ hist.last_op = "reset"
    /\ hist.prev.state = HALF_OPEN
    /\ hist.prev.half_open_calls > 0
    /\ hist.prev.failure_count > 0
    /\ hist.prev.last_failure_time # NoTime
    /\ hist.op_time < now

(***************************************************************************)
(* Claims about WorkflowEngine.execute, checked under Spec and SpecShared. *)
(***************************************************************************)
\* The calls that went past the breaker's gate.
AdmittedCalls == { r \in Calls : runs[r].pc # "idle" /\ ~runs[r].denied }

\* The calls that resume, with a state store, a run whose earlier call was
\* interrupted.
ResumedAfterInterrupt ==
    { r \in AdmittedCalls : runs[r].after_interrupt /\ eng.has_store }

\* n is the smallest step index outside done (the step count when there is
\* none).
IsResumePoint(n, done) ==
    /\ n \in 0..NSteps
    /\ \A j \in Steps : j < n => j \in done
    /\ n < NSteps => n \notin done

\* C1: an Execute call made while the engine's breaker answers can_execute
\* false returns in that same step a failed result whose error is the
\* circuit-open one, and leaves the state store, the logs and the running
\* flag as they were: no record, no log, no checkpoint, no dispatch.
C1_RefusedCallTouchesNothing ==
    [][ \A r \in Calls :
          ( /\ runs[r].pc = "idle"
            /\ runs'[r].pc # "idle"
            /\ eng.has_breaker
            /\ ~CanExecute(cb, now).ok )
          => /\ runs'[r].pc = "returned"
             /\ runs'[r].status = "failed"
             /\ runs'[r].error = "circuit_open"
             /\ store' = store
             /\ logs' = logs
             /\ running' = running
             /\ runs'[r].exec_log = "none"
             /\ ~runs'[r].created_record
             /\ runs'[r].dispatched = {}
             /\ runs'[r].step_results = << >> ]_vars

\* C1 witness: a call was refused by the breaker on an engine whose store
\* holds the record of an earlier run.
C1_Witness ==
    \E r \in Calls :
        /\ runs[r].denied
        /\ runs[r].pc = "returned"
        /\ runs[r].error = "circuit_open"
        /\ \E id \in RunIds : store.records[id] = "failed"

\* C2: whenever a call that went past the gate has returned or been left by
\* an exception, the record it created is completed or failed and the log
\* it started is finished.
C2_EveryExitFinalizes ==
    \A r \in AdmittedCalls :
        runs[r].pc \in {"returned", "raised"}
        => /\ runs[r].created_record
              => store.records[runs[r].run_id] \in {"completed", "failed"}
           /\ runs[r].exec_log # "none" => runs[r].exec_log = "finished"

\* C3 as stated: a call that resumes an interrupted run dispatches no step
\* at or below an index k whose step had succeeded in that run.
C3_NoStepUpToKRedispatched ==
    \A r \in ResumedAfterInterrupt :
        \A k \in runs[r].done_at_start :
            \A j \in 0..k : j \notin runs[r].dispatched

\* C3 amended: a call that resumes an interrupted run starts at the resume
\* point, the smallest index with no completed checkpoint; it dispatches no
\* step below the resume point; so no step of 0..k is dispatched again when
\* every step of 0..k has a completed checkpoint.
C3_ResumeStartsAtResumePoint ==
    \A r \in ResumedAfterInterrupt :
        /\ IsResumePoint(runs[r].start_step, runs[r].done_at_start)
        /\ \A j \in runs[r].dispatched : j >= runs[r].start_step
        /\ \A k \in Steps :
              (\A j \in 0..k : j \in runs[r].done_at_start)
              => \A j \in 0..k : j \notin runs[r].dispatched

\* C3 witness: a call resumed an interrupted run past a completed step and
\* has dispatched a later step.
C3_Witness ==
    \E r \in ResumedAfterInterrupt :
        /\ runs[r].start_step >= 1
        /\ runs[r].start_step \in runs[r].dispatched

\* C4: in a call that resumes an interrupted run, the output variables of
\* the steps below the resume point are bound in variables from the start
\* of the loop on (so the final variables are those of an uninterrupted
\* run).
C4_ResumedVariablesReloaded ==
    \A r \in ResumedAfterInterrupt :
        runs[r].pc # "raised"
        => \A j \in Steps :
              j < runs[r].start_step => runs[r].variables[j] # Unbound

\* C5: a call past the gate reuses resume_from as its run_id and starts at
\* the resume point when resume_from is given and the store holds a record
\* for it; in every other case its run_id is a fresh one and it starts at
\* step 0.
C5_ResumeOnlyWithRecord ==
    \A r \in AdmittedCalls :
        IF runs[r].record_at_start
        THEN /\ runs[r].run_id = runs[r].resume_from
             /\ IsResumePoint(runs[r].start_step, runs[r].done_at_start)
        ELSE /\ runs[r].run_id = FreshRunId(r)
             /\ runs[r].start_step = 0

\* C9: while the breaker is HalfOpen, the Execute calls it has admitted
\* since it became HalfOpen number at most half_open_max_calls.
C9_HalfOpenAdmitsAtMostMax ==
    cb.state = HALF_OPEN => hist.ho_admitted <= cb.half_open_max_calls

\* The positions of the failed StepResults in a call's step_results.
FailedAt(r) ==
    { n \in 1..Len(runs[r].step_results) :
        runs[r].step_results[n].status = "failed" }

\* C13: under policy stop a failed StepResult is the last entry of
\* step_results: the call has returned with status failed, and it has
\* dispatched no step and saved no checkpoint beyond the failed step.
C13_StopEndsAtFirstFailure ==
    \A r \in AdmittedCalls :
        wf.policy = "stop"
        => \A n \in FailedAt(r) :
              /\ n = Len(runs[r].step_results)
              /\ runs[r].pc = "returned"
              /\ runs[r].status = "failed"
              /\ \A j \in runs[r].dispatched \cup runs[r].checkpointed :
                    j <= runs[r].step_results[n].index

\* C13 witness: under stop a call ran a step to completion, then a step
\* that failed after a retry, and returned with a step left unevaluated.
C13_Witness ==
    \E r \in AdmittedCalls :
        /\ wf.policy = "stop"
        /\ Len(runs[r].step_results) = 2
        /\ runs[r].step_results[1].status = "completed"
        /\ runs[r].step_results[2].status = "failed"
        /\ runs[r].step_results[2].retries = 1
        /\ runs[r].step_results[2].index < NSteps - 1
        /\ runs[r].checkpointed # {}

C15_CompletedRunHasNoFailedStep ==
    \A r \in AdmittedCalls :
        (runs[r].pc = "returned" /\ runs[r].status = "completed")
        => \A n \in 1..Len(runs[r].step_results) :
              runs[r].step_results[n].status # "skipped"
              => /\ runs[r].step_results[n].status = "completed"
                 /\ runs[r].step_results[n].retries <= EffectiveRetries

\* min(step max_retries, policy max_retries), from the two declared values.
RetryBudget ==
    IF wf.max_retries <= eng.policy_max_retries THEN wf.max_retries
    ELSE eng.policy_max_retries

\* C16: a call makes at most RetryBudget + 1 attempts at a step (and
\* dispatches it to the adapter no more often than that); a completed
\* StepResult came from the one attempt that did not raise, the last one,
\* and its retries is the number of attempts that raised before it; a
\* failed StepResult came after RetryBudget + 1 attempts that all raised and
\* its retries is RetryBudget; with RetryBudget 0 a step gets one attempt
\* and retries 0.
C16_AttemptsWithinBudget ==
    \A r \in AdmittedCalls :
        /\ \A j \in Steps :
              /\ runs[r].tries[j].made <= RetryBudget + 1
              /\ runs[r].tries[j].failed <= runs[r].tries[j].made
              /\ j \notin runs[r].dispatched
                    => (runs[r].tries[j].made = 0 \/ ~eng.has_adapter)
        /\ \A n \in 1..Len(runs[r].step_results) :
              LET res == runs[r].step_results[n]
                  t == runs[r].tries[res.index]
              IN  /\ res.status = "completed"
                        => (res.retries = t.failed /\ t.made = t.failed + 1)
                  /\ res.status = "failed"
                        => /\ res.retries = RetryBudget
                           /\ t.made = RetryBudget + 1
                           /\ t.failed = t.made
                  /\ res.status = "skipped" => t.made = 0
                  /\ RetryBudget = 0
                        => (res.retries = 0 /\ t.made <= 1)

\* C16 witness: a step whose declared max_retries is above the policy's
\* completed on its last allowed attempt, after an earlier step had failed
\* on every attempt.
C16_Witness ==
    \E r \in AdmittedCalls :
        /\ wf.max_retries > eng.policy_max_retries
        /\ eng.policy_max_retries >= 1
        /\ Len(runs[r].step_results) >= 2
        /\ runs[r].step_results[1].status = "failed"
        /\ runs[r].step_results[2].status = "completed"
        /\ runs[r].step_results[2].retries = eng.policy_max_retries

\* C17: a call past the gate for which a required tool is missing from the
\* registry for the chosen agent, or the required input is absent, or the
\* workflow rejects the chosen agent, returns status failed with an error
\* that names every one of these validation errors, and has made no attempt
\* at a step, dispatched none and saved no checkpoint.
C17_ValidationFailsBeforeAnyStep ==
    \A r \in AdmittedCalls :
        runs[r].spec_errors # {}
        => /\ runs[r].pc = "returned"
           /\ runs[r].status = "failed"
           /\ runs[r].error = "validation"
           /\ { runs[r].validation_errors[n] :
                   n \in 1..Len(runs[r].validation_errors) }
                 = runs[r].spec_errors
           /\ runs[r].dispatched = {}
           /\ runs[r].checkpointed = {}
           /\ runs[r].step_results = << >>

\* C18: once cancel() has been called during a call, the call evaluates and
\* dispatches no step beyond the one it was at, and when it returns its
\* status is failed and its error is the cancelled one.
C18_CancelStopsLoop ==
    \A r \in AdmittedCalls :
        \A c \in runs[r].cancel_seen :
            /\ \A j \in runs[r].dispatched : j <= c
            /\ \A n \in 1..Len(runs[r].step_results) :
                  runs[r].step_results[n].index <= c
            /\ runs[r].pc = "returned"
                  => (runs[r].status = "failed" /\ runs[r].error = "cancelled")

\* c has the form A == B with trimmed A equal to trimmed B.
HoldsAsEquality(c) ==
    /\ Contains(c, "=", "=")
    /\ Strip(SplitLeft(c, "=", "=")) = Strip(SplitRight(c, "=", "="))

\* c has the form A >= B with both sides numbers and A at least B.
HoldsAsAtLeast(c) ==
    /\ Contains(c, ">", "=")
    /\ IsFloat(Strip(SplitLeft(c, ">", "=")))
    /\ IsFloat(Strip(SplitRight(c, ">", "=")))
    /\ FloatOf(Strip(SplitLeft(c, ">", "=")))
          >= FloatOf(Strip(SplitRight(c, ">", "=")))

\* C19: _evaluate_conditions answers true (the step runs) if and only if
\* every resolved condition holds as an equality A == B or as a numeric
\* comparison A >= B; a condition of neither form, one whose numbers do not
\* parse, and a false comparison make it answer false; the empty list
\* gives true.
C19_StepRunsIffEveryConditionHolds ==
    ev.called
    => (ev.result
          <=> \A n \in 1..Len(ev.conditions) :
                 \/ HoldsAsEquality(ev.conditions[n])
                 \/ HoldsAsAtLeast(ev.conditions[n]))

\* The positions in a call's step_results of the completed StepResults
\* with a non-null output whose step declares variable v.
BindingsOf(r, v) ==
    { n \in 1..Len(runs[r].step_results) :
        /\ runs[r].step_results[n].status = "completed"
        /\ runs[r].step_results[n].output # NoneOut
        /\ v \in wf.outvar[runs[r].step_results[n].index] }

C21_StepResultsInWorkflowOrder ==
    \A r \in AdmittedCalls :
        runs[r].pc # "raised"
        => /\ \A n \in 1..Len(runs[r].step_results) :
                 runs[r].step_results[n].index = runs[r].start_step + n - 1
           /\ runs[r].pc \in {"dispatch", "sleep"}
                 => /\ Len(runs[r].step_results)
                         = runs[r].i - runs[r].start_step
                    /\ \A j \in Steps :
                          (j \in runs[r].dispatched
                             \/ runs[r].tries[j].made > 0) => j <= runs[r].i

\* C21 witness: a call that resumed a run past its first step has recorded
\* a skipped step and awaits the step after it.
C21_Witness ==
    \E r \in AdmittedCalls :
        /\ runs[r].start_step = 1
        /\ runs[r].pc = "dispatch"
        /\ runs[r].i = 2
        /\ Len(runs[r].step_results) = 1
        /\ runs[r].step_results[1].status = "skipped"

\* C22: the status of an execution record that is completed or failed is
\* never changed again, and no step finalizes a record that was finalized
\* before: a record's status only moves from none to running and from
\* running to completed or failed.
C22_RecordFinalizedOnce ==
    [][ \A id \in RunIds :
          /\ store.records[id] \in {"completed", "failed"}
                => /\ store'.records[id] = store.records[id]
                   /\ \A r \in Calls :
                         (runs'[r].run_id = id /\ runs'[r].finalized)
                         => (runs[r].run_id = id /\ runs[r].finalized)
          /\ store.records[id] = "running"
                => store'.records[id] \in {"running", "completed", "failed"}
      ]_vars

\* C23: on an engine with a state store, a call that went past the gate
\* and reached the step loop has, from then until it returns, a record
\* under its run_id in the store: the one it created when it is a fresh
\* run, the one that was there when it resumes.
C23_RunHasItsRecord ==
    \A r \in AdmittedCalls :
        (eng.has_store /\ runs[r].error # "validation")
        => /\ HasExecution(store, runs[r].run_id)
           /\ runs[r].resume_from = NoRun => runs[r].created_record
           /\ runs[r].resume_from # NoRun => runs[r].record_at_start

\* C24: on an engine with a breaker, a call that the breaker admitted and
\* that has returned has reported exactly one outcome to it, record_success
\* when its status is completed and record_failure when it is failed; a
\* call has reported nothing before it returns, and a refused call nothing
\* at all.
C24_OneReportPerAdmittedCall ==
    \A r \in Calls :
        eng.has_breaker
        => /\ (runs[r].pc = "returned" /\ ~runs[r].denied)
                 => runs[r].reports
                      = << IF runs[r].status = "completed"
                           THEN "record_success" ELSE "record_failure" >>
           /\ (runs[r].pc # "returned" \/ runs[r].denied)
                 => runs[r].reports = << >>

\* The steps whose dispatch raises a configuration error on every attempt.
Unconfigured ==
    { j \in Steps :
        \/ j \in wf.tool_steps /\ ~eng.has_registry
        \/ j \in wf.tool_steps /\ eng.tool_for = {}
        \/ j \notin wf.tool_steps /\ ~eng.has_adapter }

\* C25: an Exception raised inside the step loop never leaves execute (a
\* call ends with an exception only when its task is cancelled).  A step
\* whose dispatch is not configured (no adapter, no registry, no tool) gets
\* a failed StepResult after RetryBudget + 1 attempts; a failed StepResult
\* under the stop or rollback policy is the last one and fails the run; and
\* when the checkpoint write raises, the call returns status failed with
\* the unexpected error recorded, the run's record (when it has one)
\* finalized as failed and the failure reported to the breaker.
C25_LoopErrorsAreCaught ==
    \A r \in Calls :
        /\ runs[r].pc = "raised" => runs[r].error = "cancelled"
        /\ runs[r].pc = "returned"
           => \A n \in 1..Len(runs[r].step_results) :
                 LET res == runs[r].step_results[n]
                 IN  /\ res.index \in Unconfigured
                        => /\ res.status = "failed"
                           /\ res.retries = RetryBudget
                           /\ runs[r].tries[res.index].failed
                                 = RetryBudget + 1
                     /\ (res.status = "failed" /\ wf.policy # "continue")
                        => /\ n = Len(runs[r].step_results)
                           /\ runs[r].status = "failed"
                           /\ runs[r].error # "none"
                     /\ (eng.has_store /\ eng.checkpoint_raises)
                        => /\ n = 1
                           /\ runs[r].status = "failed"
                           /\ runs[r].error = "unexpected"
                           /\ HasExecution(store, runs[r].run_id)
                                 => store.records[runs[r].run_id] = "failed"
                           /\ runs[r].reports = <<"record_failure">>

C25_Witness ==
    \E r \in Calls :
        /\ runs[r].pc = "returned"
        /\ runs[r].error = "unexpected"
        /\ Len(runs[r].step_results) = 1
        /\ runs[r].step_results[1].status = "failed"
        /\ runs[r].step_results[1].retries = 1
        /\ 0 \in wf.tool_steps
        /\ ~eng.has_registry

\* C26: with jitter = 0, every get_delay(n) call returns
\* min(base_delay * exponential_base^(n-1), max_delay), and a call with the
\* same n as the call before it returns the same value.
C26_DelayWithoutJitter ==
    [][ (rp'.called /\ rp'.policy.jitter = 0)
        => /\ rp'.delay
                = MinOf({ rp'.policy.base_delay * DelayScale
                            * Pow(rp'.policy.exponential_base,
                                  rp'.attempt - 1),
                          rp'.policy.max_delay * DelayScale })
           /\ (rp.called /\ rp'.attempt = rp.attempt)
                 => rp'.delay = rp.delay ]_vars

\* A call on a policy without jitter whose exponential delay is below the
\* cap, and one whose delay is cut to the cap.
C26_Witness ==
    /\ rp.called
    /\ rp.policy.jitter = 0
    /\ rp.policy.base_delay = 1
    /\ rp.policy.exponential_base = 2
    /\ rp.attempt = 3
    /\ rp.delay = 4 * DelayScale
    /\ rp.policy.max_delay > 4

\* The uncapped exponential delay of the latest call and its jitter range,
\* from the policy's values.
UncappedDelay ==
    rp.policy.base_delay * DelayScale
        * Pow(rp.policy.exponential_base, rp.attempt - 1)

JitterOfDelay == (UncappedDelay * rp.policy.jitter) \div DelayScale

\* C27: every value get_delay(n) returns is at least 0 and at most
\* max_delay, and lies between d - j*d and d + j*d when d + j*d is at most
\* max_delay (d the uncapped exponential delay, j the jitter).
C27_DelayWithinBounds ==
    rp.called
    => /\ rp.delay >= 0
       /\ rp.delay <= rp.policy.max_delay * DelayScale
       /\ UncappedDelay + JitterOfDelay <= rp.policy.max_delay * DelayScale
             => /\ rp.delay >= UncappedDelay - JitterOfDelay
                /\ rp.delay <= UncappedDelay + JitterOfDelay

\* A call with jitter that returned less than the exponential delay, and
\* the cap out of reach.
C27_Witness ==
    /\ rp.called
    /\ rp.policy.jitter = DelayScale \div 2
    /\ rp.policy.base_delay = 2
    /\ rp.attempt = 2
    /\ rp.policy.exponential_base = 2
    /\ rp.policy.max_delay = MaxMaxDelay
    /\ rp.delay = UncappedDelay - JitterOfDelay

\* The bindings of a variables mapping, as a set of name and value pairs.
Bindings(variables) ==
    { <<v, variables[v]>> : v \in { x \in VarNames : variables[x] # Unbound } }

\* C28: a call of a workflow with zero steps that passed the breaker's gate
\* and validation returns status completed, with no StepResult and final
\* variables equal to the inputs it was given.
C28_EmptyWorkflowReturnsInputs ==
    \A r \in Calls :
        (/\ wf.nsteps = 0
         /\ runs[r].pc = "returned"
         /\ ~runs[r].denied
         /\ runs[r].error # "validation")
        => /\ runs[r].status = "completed"
           /\ runs[r].step_results = << >>
           /\ Bindings(runs[r].variables) = runs[r].inputs

C30_EventsInStepOrder ==
    \A r \in Calls :
        LET e == runs[r].events
        IN  \A q \in 1..Len(e) :
              /\ e[q].kind \in {"step_completed", "step_failed"}
                 => \E p \in 1..(q - 1) :
                       /\ e[p].kind = "step_started"
                       /\ e[p].index = e[q].index
              /\ (/\ eng.has_store
                  /\ e[q].kind # "checkpoint"
                  /\ \E p \in 1..Len(e) :
                        /\ e[p].kind = "dispatch"
                        /\ e[p].index + 1 = e[q].index)
                 => \E c \in 1..(q - 1) :
                       /\ e[c].kind = "checkpoint"
                       /\ e[c].index + 1 = e[q].index

\* A call that failed step 0 after a retry, went on, and is awaiting the
\* dispatch of step 1 with the checkpoint of step 0 written.
C30_Witness ==
    \E r \in Calls :
        /\ runs[r].pc = "dispatch"
        /\ runs[r].i = 1
        /\ eng.has_store /\ eng.has_logger /\ eng.has_adapter
        /\ runs[r].events
             = << [kind |-> "step_started", index |-> 0],
                  [kind |-> "dispatch", index |-> 0],
                  [kind |-> "step_retrying", index |-> 0, attempt |-> 1,
                   max |-> 1, delay |-> DelayScale],
                  [kind |-> "sleep", index |-> 0, delay |-> DelayScale],
                  [kind |-> "dispatch", index |-> 0],
                  [kind |-> "checkpoint", index |-> 0],
                  [kind |-> "step_failed", index |-> 0],
                  [kind |-> "step_started", index |-> 1],
                  [kind |-> "dispatch", index |-> 1] >>

\* The attempts at step j made before position q of the events e.
AttemptsBefore(e, q, j) ==
    Cardinality({ p \in 1..(q - 1) :
                    e[p].kind = "dispatch" /\ e[p].index = j })

\* C31: a step_retrying event comes right after failed attempt k of its
\* step, carries k (at most the budget), the budget and a delay
\* get_delay(k) can return, and is followed at once by the sleep of that
\* same delay; a sleep comes right after that event (right after the failed
\* attempt when the call has no log) and is followed by the next attempt of
\* the same step and nothing else; two attempts of a step are never next to
\* each other; and a completed StepResult's retries is the number of
\* sleeps its step had.
C31_RetryEventsAndSleeps ==
    \A r \in Calls :
        LET e == runs[r].events
        IN  /\ \A q \in 1..Len(e) :
                 LET k == AttemptsBefore(e, q, e[q].index)
                 IN  /\ e[q].kind = "step_retrying"
                        => /\ e[q].attempt = k
                           /\ k >= 1 /\ k <= RetryBudget
                           /\ e[q].max = RetryBudget
                           /\ e[q].delay \in GetDelay(eng.retry_policy, k)
                           /\ e[q - 1].kind = "dispatch"
                           /\ q < Len(e)
                           /\ e[q + 1] = [kind |-> "sleep",
                                          index |-> e[q].index,
                                          delay |-> e[q].delay]
                     /\ e[q].kind = "sleep"
                        => /\ k >= 1 /\ k <= RetryBudget
                           /\ e[q].delay \in GetDelay(eng.retry_policy, k)
                           /\ e[q - 1].kind
                                 = (IF eng.has_logger THEN "step_retrying"
                                    ELSE "dispatch")
                           /\ e[q - 1].index = e[q].index
                           /\ IF q = Len(e) THEN runs[r].pc = "sleep"
                              ELSE /\ e[q + 1].kind = "dispatch"
                                   /\ e[q + 1].index = e[q].index
                     /\ (e[q].kind = "dispatch" /\ q < Len(e)
                         /\ e[q + 1].kind = "dispatch")
                        => e[q + 1].index # e[q].index
            /\ \A n \in 1..Len(runs[r].step_results) :
                 runs[r].step_results[n].status = "completed"
                 => runs[r].step_results[n].retries
                      = Cardinality({ q \in 1..Len(e) :
                            /\ e[q].kind = "sleep"
                            /\ e[q].index = runs[r].step_results[n].index })

\* Step 0 failed twice and succeeded on attempt 3, on the policy with
\* jitter 0, base 1.0 and exponential base 2.0: retries 2, delays 1.0, 2.0.
C31_Witness ==
    \E r \in Calls :
        /\ eng.retry_policy = SteadyRetryPolicy
        /\ eng.has_logger
        /\ Len(runs[r].step_results) >= 1
        /\ runs[r].step_results[1].status = "completed"
        /\ runs[r].step_results[1].retries = 2
        /\ Len(runs[r].events) >= 9
        /\ runs[r].events[3]
             = [kind |-> "step_retrying", index |-> 0, attempt |-> 1,
                max |-> 2, delay |-> DelayScale]
        /\ runs[r].events[4]
             = [kind |-> "sleep", index |-> 0, delay |-> DelayScale]
        /\ runs[r].events[6]
             = [kind |-> "step_retrying", index |-> 0, attempt |-> 2,
                max |-> 2, delay |-> 2 * DelayScale]
        /\ runs[r].events[7]
             = [kind |-> "sleep", index |-> 0, delay |-> 2 * DelayScale]
        /\ runs[r].events[8].kind = "dispatch"
        /\ runs[r].events[9].kind = "checkpoint"

\* C32: the StepResult of a step is skipped exactly when the step's
\* conditions are false; such a step was not attempted or dispatched by the
\* call, has no checkpoint in the store, and its output_variable is not
\* bound; the loop went on after it (a call that returned with a skipped
\* result last had reached the end of the workflow and, when every step is
\* skipped, returned completed with one skipped result per step).
C32_SkippedStepLeavesNoTrace ==
    \A r \in AdmittedCalls :
        runs[r].pc # "raised"
        => /\ \A n \in 1..Len(runs[r].step_results) :
                 LET res == runs[r].step_results[n]
                 IN  /\ res.status = "skipped" <=> res.index \in wf.skip
                     /\ res.status = "skipped"
                        => /\ res.index \notin runs[r].dispatched
                           /\ runs[r].tries[res.index].made = 0
                           /\ res.index \notin runs[r].checkpointed
                           /\ \A id \in RunIds :
                                 store.checkpoints[id][res.index]
                                     = NoCheckpoint
                           /\ \A v \in wf.outvar[res.index] :
                                 runs[r].variables[v] = Unbound
                           /\ res.output = NoneOut
                           /\ (runs[r].pc = "returned"
                               /\ n = Len(runs[r].step_results))
                              => res.index = wf.nsteps - 1
           /\ (wf.skip = Steps /\ runs[r].pc = "returned"
               /\ runs[r].error # "validation")
              => /\ runs[r].status = "completed"
                 /\ Len(runs[r].step_results)
                       = wf.nsteps - runs[r].start_step

\* A call that skipped step 1 between two steps it ran.
C32_Witness ==
    \E r \in AdmittedCalls :
        /\ runs[r].pc = "returned"
        /\ runs[r].status = "completed"
        /\ Len(runs[r].step_results) = 3
        /\ runs[r].step_results[1].status = "completed"
        /\ runs[r].step_results[2].status = "skipped"
        /\ runs[r].step_results[3].status = "completed"
        /\ eng.has_store

\* The positions in the events e of the kind of event for step j.
EventsOf(e, kind, j) ==
    { q \in 1..Len(e) : e[q].kind = kind /\ e[q].index = j }

\* C33: on an engine with a state store, every step a call has a result
\* for, other than a skipped one, has exactly one checkpoint write in the
\* call, made after the step's last attempt; the checkpoint in the store
\* has status completed exactly when the result is completed, the result's
\* retries as its retry_count, and the result's output as its outputs.
C33_CheckpointMatchesResult ==
    \A r \in AdmittedCalls :
        (eng.has_store /\ runs[r].pc # "raised")
        => \A n \in 1..Len(runs[r].step_results) :
              LET res == runs[r].step_results[n]
                  e == runs[r].events
                  c == store.checkpoints[runs[r].run_id][res.index]
              IN  res.status # "skipped"
                  => /\ Cardinality(EventsOf(e, "checkpoint", res.index)) = 1
                     /\ \A q \in EventsOf(e, "checkpoint", res.index),
                           p \in EventsOf(e, "dispatch", res.index) : p < q
                     /\ c.status = "completed" <=> res.status = "completed"
                     /\ c.status \in {"completed", "failed"}
                     /\ c.retry_count = res.retries
                     /\ c.output = res.output

\* The same with the outputs compared only when Python takes the result's
\* output as true.
C33_CheckpointMatchesTruthyResult ==
    \A r \in AdmittedCalls :
        (eng.has_store /\ runs[r].pc # "raised")
        => \A n \in 1..Len(runs[r].step_results) :
              LET res == runs[r].step_results[n]
                  e == runs[r].events
                  c == store.checkpoints[runs[r].run_id][res.index]
              IN  res.status # "skipped"
                  => /\ Cardinality(EventsOf(e, "checkpoint", res.index)) = 1
                     /\ \A q \in EventsOf(e, "checkpoint", res.index),
                           p \in EventsOf(e, "dispatch", res.index) : p < q
                     /\ c.status = "completed" <=> res.status = "completed"
                     /\ c.status \in {"completed", "failed"}
                     /\ c.retry_count = res.retries
                     /\ Truthy(res.output) => c.output = res.output

(***************************************************************************)
(* The half-open counter, checked under SpecCB.                            *)
(***************************************************************************)
\* C34: whenever the breaker is HalfOpen its half-open counter is strictly
\* below half_open_max_calls, the answer can_execute computes on it is
\* true, and a can_execute call that returns with the breaker HalfOpen has
\* answered true: a HalfOpen breaker never refuses.
C34_HalfOpenNeverRefuses ==
    cb.state = HALF_OPEN
    => /\ cb.half_open_max_calls >= 1
       /\ cb.half_open_calls < cb.half_open_max_calls
       /\ CanExecuteAnswer(cb)
       /\ hist.last_op = "can_execute" => hist.ok

\* C34 witness: can_execute has just answered true on a HalfOpen breaker
\* that has already counted one success of its two.
C34_Witness ==
    /\ hist.last_op = "can_execute"
    /\ hist.ok
    /\ cb.state = HALF_OPEN
    /\ cb.half_open_calls = 1
    /\ cb.half_open_max_calls = 2

(***************************************************************************)
(* Reports that reach an Open breaker, checked under SpecCB.               *)
(***************************************************************************)
\* C35: a record_failure made while the breaker is Open leaves it Open,
\* adds one to failure_count and sets the failure timestamp to the time of
\* the call; every record_failure leaves the timestamp at its own time, and
\* a breaker that is HalfOpen is at least recovery_timeout past that
\* timestamp, so the move from Open to HalfOpen comes no earlier than
\* recovery_timeout after the latest recorded failure.  A record_success
\* made while Open leaves the breaker as it was.
C35_ReportsWhileOpen ==
    /\ (hist.last_op = "record_failure" /\ hist.prev.state = OPEN)
       => /\ cb.state = OPEN
          /\ cb.failure_count = hist.prev.failure_count + 1
          /\ cb.last_failure_time = hist.op_time
    /\ hist.last_op = "record_failure"
       => cb.last_failure_time = hist.op_time
    /\ cb.state = HALF_OPEN
       => /\ cb.last_failure_time # NoTime
          /\ now - cb.last_failure_time >= cb.recovery_timeout
    /\ (hist.last_op \in {"state", "can_execute"}
          /\ hist.prev.state = OPEN /\ cb.state = HALF_OPEN)
       => hist.op_time - hist.prev.last_failure_time
              >= cb.recovery_timeout
    /\ (hist.last_op = "record_success" /\ hist.prev.state = OPEN)
       => cb = hist.prev

\* C35 witness: a record_failure has reached an Open breaker whose
\* recovery_timeout had already elapsed since the failure before it; the
\* breaker is still Open and its timestamp has moved to the later time.
C35_Witness ==
    /\ hist.last_op = "record_failure"
    /\ hist.prev.state = OPEN
    /\ hist.op_time - hist.prev.last_failure_time >= cb.recovery_timeout
    /\ cb.state = OPEN
    /\ cb.failure_count > cb.failure_threshold
    /\ cb.last_failure_time = hist.op_time

\* C35 second witness: a record_success has reached an Open breaker.
C35_SuccessWhileOpen ==
    /\ hist.last_op = "record_success"
    /\ hist.prev.state = OPEN
    /\ cb.state = OPEN

(***************************************************************************)
(* Which reports close a HalfOpen breaker, checked under SpecShared.       *)
(***************************************************************************)
\* C36: a report that moves the shared breaker from HalfOpen to Closed comes
\* from a call that was admitted while the breaker was HalfOpen; a success
\* reported by a call admitted while it was Closed, before it opened, does
\* not close it.
C36_OnlyHalfOpenAdmissionsClose ==
    [][ \A r \in Calls :
           ( /\ cb.state = HALF_OPEN
             /\ cb'.state = CLOSED
             /\ Len(runs'[r].reports) > Len(runs[r].reports) )
           => runs[r].gate = HALF_OPEN ]_vars

(***************************************************************************)
(* Termination of execute, checked under SpecReturns.                      *)
(***************************************************************************)
\* The dispatch attempts call r has made.
Dispatches(r) ==
    Cardinality({ q \in 1..Len(runs[r].events) :
                    runs[r].events[q].kind = "dispatch" })

\* The sum over the workflow's steps of
\* min(step max_retries, policy max_retries) + 1.
DispatchBudget == wf.nsteps * (RetryBudget + 1)

\* The call has returned a WorkflowResult.
Returned(r) ==
    /\ runs[r].pc = "returned"
    /\ runs[r].status \in {"completed", "failed"}

\* C37: a call never makes more dispatches than the sum over its steps of
\* min(step max_retries, policy max_retries) + 1; and, when every awaited
\* dispatch eventually returns or raises, every call that has been made
\* eventually has returned a WorkflowResult with status completed or
\* failed, its record in the store holding that status and its log
\* finished.
C37_EveryCallReturns ==
    /\ [](\A r \in Calls : Dispatches(r) <= DispatchBudget)
    /\ \A r \in Calls :
          (runs[r].pc # "idle")
          ~> ( /\ Returned(r)
               /\ HasExecution(store, runs[r].run_id)
                     => store.records[runs[r].run_id] = runs[r].status
               /\ runs[r].exec_log \in {"none", "finished"} )

\* C37 witness: a call has returned failed after every step of the workflow
\* used its whole budget of three attempts.
C37_Witness ==
    /\ Returned(1)
    /\ runs[1].status = "failed"
    /\ RetryBudget = 2
    /\ Dispatches(1) = DispatchBudget
    /\ Len(runs[1].step_results) = wf.nsteps

====
